---------------------------- MODULE Spec2Model ----------------------------
(***************************************************************************)
(* Smart Attendance & Recognition System: the attendance endpoints of      *)
(* backend/api (camera.py, attendance.py, users.py) and the face index of  *)
(* backend/services/face_recognition_service.py.                           *)
(*                                                                         *)
(* Time is counted in whole minutes.  Face encodings are points on a line  *)
(* and distances are counted in tenths (6 stands for 0.6).                 *)
(*                                                                         *)
(* Every endpoint is an "async def" served by one uvicorn process          *)
(* (main.py:79-84), so the code between two awaits of a handler is one     *)
(* step of the event loop.  generate_frames is a plain generator handed to *)
(* StreamingResponse (camera.py:31-34); it is iterated in a worker thread  *)
(* and so interleaves with the event loop statement by statement.          *)
(***************************************************************************)
EXTENDS Integers, Sequences, FiniteSets, TLC

\* ------------------------------------------------------------------ bounds
MaxUsers == 2
MaxTicks == 6
MaxLogs == 2
MaxUnknown == 2
MaxFaces == 2
MaxUploadFaces == 1
MaxInflight == 2
MaxTimedInflight == 1
MaxFeedFaces == 1
MaxDamaged == 1
MaxOverlap == 1
MaxStreams == 2

\* ------------------------------------------------------- program constants
\* timedelta(minutes=5)
CooldownMinutes == 5
\* settings.FACE_RECOGNITION_TOLERANCE = 0.6, in tenths
Tolerance == 6
\* the distance 1.0 of "1.0 - best_match_distance", in tenths
One == 10
MinutesPerDay == 24 * 60
signin_start == 8 * 60 + 30
signin_end == 9 * 60
logout_start == 13 * 60 + 30
logout_end == 14 * 60

UserIds == 1..MaxUsers
None == 0
Names == <<"Ann", "Bob", "Cy", "Dee">>
NameOf(u) == Names[u]
\* the encoding face_recognition computes from the photo of person u
EncOf(u) == 8 * (u - 1)
\* the encodings the detector returns for the faces of a frame:
\* the registered persons and one stranger
Stranger == 8 * MaxUsers + 11
ProbeSet == {EncOf(u) : u \in UserIds} \cup {Stranger}
\* an encoding whose length differs from that of the stored encodings
Malformed == 0 - 1000
\* the clock readings at which the server process may start:
\* minutes since a local midnight, on two different days
GateStartTimes == {8 * 60 + 28}
\* the clock readings around the four limits of the student windows, on two days
WindowTimes ==
  {d * MinutesPerDay + h + e : d \in {0, 1}, e \in {-1, 0, 1},
                              h \in {signin_start, signin_end, logout_start, logout_end}}

Roles == {"employee", "student"}
EventTypes == {"entry", "exit", "break"}
\* "copied": next to user_<id>.pkl the folder holds a second .pkl file with the
\* same content
FileStates == {"absent", "ok", "unreadable", "noUserId", "noName", "copied"}

Abs(x) == IF x < 0 THEN -x ELSE x
Range(s) == {s[i] : i \in 1..Len(s)}
SeqsUpTo(S, n) == UNION {[1..k -> S] : k \in 0..n}

\* a decoded frame is the list of encodings detect_faces finds in it
FramesOf(probes, n) == {[decodable |-> TRUE, faces |-> fs] : fs \in SeqsUpTo(probes, n)}
\* the frames CameraService.read_frame returns
Frames == FramesOf(ProbeSet, MaxFaces)
\* the frames that show registered persons only
KnownFrames == FramesOf(ProbeSet \ {Stranger}, MaxFaces)
\* an upload cv2.imdecode cannot decode
Undecodable == [decodable |-> FALSE, faces |-> <<>>]
\* the images posted to /camera/recognize-upload
UploadFrames == FramesOf(ProbeSet, MaxUploadFaces) \cup {Undecodable}
KnownUploadFrames == FramesOf(ProbeSet \ {Stranger}, MaxUploadFaces) \cup {Undecodable}

VARIABLES
  now,                   \* local wall clock, minutes
  ticks,                 \* minutes elapsed since the process started
  users,                 \* table users: id -> role, "none" when no row
  files,                 \* FACE_EMBEDDINGS_FOLDER: id -> state of user_<id>.pkl
  photos,                \* UPLOAD_FOLDER: id -> what the user's saved photo shows
  known_face_encodings,  \* the three index lists of FaceRecognitionService
  known_face_ids,
  known_face_names,
  attendance_logs,       \* table attendance_logs, in insertion order
  unknown_faces,         \* number of rows of table unknown_faces
  camera,                \* CameraService.camera: "None", or a capture that is
                         \* "opened", "unopened" or "released"
  is_running,            \* CameraService.is_running
  streams,               \* the generators of generate_frames: where each one is
  uploads,               \* recognize-upload requests suspended in "await file.read()"
  response,              \* the last HTTP response sent
  window_rejected,       \* who was last refused by the time window, and when
  tolerance,             \* FaceRecognitionService.tolerance, in tenths
  task,                  \* the handler the event loop is running, inside reload_known_faces
  feed                   \* the worker thread iterating generate_frames

\* tolerance is set by __init__ only: it is in both groups, so that every
\* action leaves it unchanged
gateVarsButResponse == <<now, ticks, attendance_logs, unknown_faces, camera, is_running,
                         streams, uploads, window_rejected, tolerance>>
gateVars == <<gateVarsButResponse, response>>
indexVars == <<users, files, photos, known_face_encodings, known_face_ids, known_face_names,
               tolerance, task, feed>>
vars == <<gateVars, indexVars>>

\* faces: the encodings detected in the frame the response answers
NoResponse == [op |-> "none", status |-> 0, user |-> None, overtaken |-> FALSE,
               total_faces |-> 0, recognized |-> 0, unknown |-> 0,
               logged_users |-> <<>>, results |-> <<>>, faces |-> <<>>]
NoRejection == [user |-> None, at |-> -1]

\* ------------------------------------------------------------ face index
\* face_recognition.face_distance: the distance of the probe to every entry;
\* on a probe of another length numpy raises ValueError
FaceDistance(encs, probe) == [i \in 1..Len(encs) |-> Abs(encs[i] - probe)]

\* an argmin that returns the last index of a minimal element
ArgMinLast(ds) ==
  CHOOSE i \in 1..Len(ds) :
    /\ \A j \in 1..Len(ds) : ds[i] <= ds[j]
    /\ \A j \in (i + 1)..Len(ds) : ds[j] > ds[i]

\* np.argmin: the first index of a minimal element
ArgMin(ds) ==
  CHOOSE i \in 1..Len(ds) :
    /\ \A j \in 1..Len(ds) : ds[i] <= ds[j]
    /\ \A j \in 1..(i - 1) : ds[j] > ds[i]

UnknownResult(conf) ==
  [user_id |-> None, name |-> "Unknown", confidence |-> conf,
   is_recognized |-> FALSE, exc |-> "none"]

Raised(e) ==
  [user_id |-> None, name |-> "Unknown", confidence |-> 0,
   is_recognized |-> FALSE, exc |-> e]

\* the loop body without the test for an empty index
RecognizeOneNoEmptyCheck(probe, encs, ids, names) ==
  IF probe = Malformed \/ Len(encs) = 0 THEN Raised("ValueError")
  ELSE LET ds == FaceDistance(encs, probe)
           best == ArgMin(ds)
       IN IF ds[best] <= tolerance
          THEN IF best > Len(ids) \/ best > Len(names) THEN Raised("IndexError")
               ELSE [user_id |-> ids[best], name |-> names[best],
                     confidence |-> One - ds[best], is_recognized |-> TRUE,
                     exc |-> "none"]
          ELSE UnknownResult(One - ds[best])

\* the loop body with "best_match_distance < self.tolerance"
RecognizeOneStrict(probe, encs, ids, names) ==
  IF Len(encs) = 0 THEN UnknownResult(0)
  ELSE IF probe = Malformed THEN Raised("ValueError")
  ELSE LET ds == FaceDistance(encs, probe)
           best == ArgMin(ds)
       IN IF ds[best] < tolerance
          THEN IF best > Len(ids) \/ best > Len(names) THEN Raised("IndexError")
               ELSE [user_id |-> ids[best], name |-> names[best],
                     confidence |-> One - ds[best], is_recognized |-> TRUE,
                     exc |-> "none"]
          ELSE UnknownResult(One - ds[best])

\* one iteration of the loop of recognize_faces over the lists given
RecognizeOne(probe, encs, ids, names) ==
  IF Len(encs) = 0 THEN UnknownResult(0)
  ELSE IF probe = Malformed THEN Raised("ValueError")
  ELSE LET ds == FaceDistance(encs, probe)
           best == ArgMin(ds)
       IN IF ds[best] <= tolerance
          THEN IF best > Len(ids) \/ best > Len(names) THEN Raised("IndexError")
               ELSE [user_id |-> ids[best], name |-> names[best],
                     confidence |-> One - ds[best], is_recognized |-> TRUE,
                     exc |-> "none"]
          ELSE UnknownResult(One - ds[best])

\* recognize_faces run without interruption (on the event loop)
recognize_faces(frame) ==
  [i \in 1..Len(frame.faces) |->
     RecognizeOne(frame.faces[i], known_face_encodings, known_face_ids, known_face_names)]

RaisedIn(results) == \E i \in 1..Len(results) : results[i].exc # "none"

\* the number of .pkl files of the folder that carry the user's id
PklFiles(state) ==
  CASE state = "absent" -> 0
    [] state = "copied" -> 2
    [] OTHER -> 1

\* the entries a file contributes to the three lists before load_known_faces
\* moves on: pickle.load or a missing key raises after 0, 1 or 2 appends
AppendsOf(state) ==
  CASE state \in {"ok", "copied"} -> 3
    [] state = "noName" -> 2
    [] state = "noUserId" -> 1
    [] OTHER -> 0

RECURSIVE LoadFiles(_, _)
\* the loop of load_known_faces over the files in listing order, from the lists idx
LoadFiles(order, idx) ==
  IF order = <<>> THEN idx
  ELSE LET u == Head(order)
           n == AppendsOf(files[u])
       IN LoadFiles(Tail(order),
            [encs  |-> IF n >= 1 THEN Append(idx.encs, EncOf(u)) ELSE idx.encs,
             ids   |-> IF n >= 2 THEN Append(idx.ids, u) ELSE idx.ids,
             names |-> IF n >= 3 THEN Append(idx.names, NameOf(u)) ELSE idx.names])

\* os.listdir returns the .pkl files in an order of the file system's choosing
Listings(fs) ==
  LET present == {u \in UserIds : fs[u] # "absent"}
      names == {f \in UserIds \X {1, 2} : f[2] <= PklFiles(fs[f[1]])}
  IN {s \in [1..Cardinality(names) -> present] :
        \A u \in present : Cardinality({i \in 1..Len(s) : s[i] = u}) = PklFiles(fs[u])}

EmptyIndex == [encs |-> <<>>, ids |-> <<>>, names |-> <<>>]

\* ------------------------------------------------------- attendance gate
TimeOfDay(t) == t % MinutesPerDay

\* the query filtering on the row's primary key instead of its user_id
RecentLogById(rows, user_id, t) ==
  \E i \in 1..Len(rows) :
    /\ i = user_id
    /\ rows[i].timestamp >= t - CooldownMinutes

\* the query with timedelta(seconds=5): the window is gone within the minute
RecentLogSeconds(rows, user_id, t) ==
  \E i \in 1..Len(rows) :
    /\ rows[i].user_id = user_id
    /\ rows[i].timestamp >= t

\* the query with timestamp > five_minutes_ago
RecentLogStrict(rows, user_id, t) ==
  \E i \in 1..Len(rows) :
    /\ rows[i].user_id = user_id
    /\ rows[i].timestamp > t - CooldownMinutes

\* the filter of the recent_log query: same user, timestamp >= five_minutes_ago
RecentLog(rows, user_id, t) ==
  \E i \in 1..Len(rows) :
    /\ rows[i].user_id = user_id
    /\ rows[i].timestamp >= t - CooldownMinutes

\* the session flushes its pending rows before it runs a query
SessionAutoflush == TRUE

\* the rows a query of the request's session sees
SessionRows(pending) ==
  IF SessionAutoflush THEN attendance_logs \o pending ELSE attendance_logs

NewLog(user_id, ev, via) ==
  [user_id |-> user_id, timestamp |-> now, event_type |-> ev, via |-> via]

RECURSIVE LogLoopUnknownOnce(_, _, _)
\* the loop storing one unknown face per frame at most
LogLoopUnknownOnce(results, via, acc) ==
  IF results = <<>> THEN acc
  ELSE LET result == Head(results)
           next ==
             IF result.is_recognized
             THEN IF ~RecentLog(SessionRows(acc.pending), result.user_id, now)
                  THEN [acc EXCEPT !.pending = Append(@, NewLog(result.user_id, "entry", via)),
                                   !.logged_users = Append(@, result.name)]
                  ELSE acc
             ELSE [acc EXCEPT !.unknown_count = 1]
       IN LogLoopUnknownOnce(Tail(results), via, next)

RECURSIVE LogLoop(_, _, _)
\* the loop "for result in results" of the two recognition endpoints;
\* acc = [pending, logged_users, unknown_count]
LogLoop(results, via, acc) ==
  IF results = <<>> THEN acc
  ELSE LET result == Head(results)
           next ==
             IF result.is_recognized
             THEN IF ~RecentLog(SessionRows(acc.pending), result.user_id, now)
                  THEN [acc EXCEPT !.pending = Append(@, NewLog(result.user_id, "entry", via)),
                                   !.logged_users = Append(@, result.name)]
                  ELSE acc
             ELSE [acc EXCEPT !.unknown_count = @ + 1]
       IN LogLoop(Tail(results), via, next)

NoAcc == [pending |-> <<>>, logged_users |-> <<>>, unknown_count |-> 0]

Public(results) ==
  [i \in 1..Len(results) |->
     [user_id |-> results[i].user_id, name |-> results[i].name,
      confidence |-> results[i].confidence, is_recognized |-> results[i].is_recognized]]

\* a request that commits attendance rows overtakes the requests still suspended
Overtake(reqs, pending) ==
  [i \in 1..Len(reqs) |-> [reqs[i] EXCEPT !.overtaken = @ \/ pending # <<>>]]

\* the body committing the faces matched before the one that raised
RecognizePartial(op, frame, overtaken, waiting) ==
  \E results \in {recognize_faces(frame)} :
    LET failed == {i \in 1..Len(results) : results[i].exc # "none"}
        done == IF failed = {} THEN results
                ELSE SubSeq(results, 1, (CHOOSE i \in failed : \A j \in failed : i <= j) - 1)
    IN \E acc \in {LogLoop(done, op, NoAcc)} :
         /\ Len(attendance_logs) + Len(acc.pending) <= MaxLogs
         /\ unknown_faces + acc.unknown_count <= MaxUnknown
         /\ attendance_logs' = attendance_logs \o acc.pending
         /\ unknown_faces' = unknown_faces + acc.unknown_count
         /\ uploads' = Overtake(waiting, acc.pending)
         /\ response' = [op |-> op, status |-> IF failed = {} THEN 200 ELSE 500,
                         user |-> None, overtaken |-> overtaken,
                         total_faces |-> Len(done),
                         recognized |-> Len(acc.logged_users),
                         unknown |-> acc.unknown_count,
                         logged_users |-> acc.logged_users,
                         results |-> Public(done),
                         faces |-> frame.faces]

\* the body reporting the recognized faces in place of the logged ones
RecognizeCountsMatches(op, frame, overtaken, waiting) ==
  \E results \in {recognize_faces(frame)} :
    IF RaisedIn(results)
    THEN /\ response' = [NoResponse EXCEPT !.op = op, !.status = 500,
                                           !.overtaken = overtaken,
                                           !.faces = frame.faces]
         /\ uploads' = waiting
         /\ UNCHANGED <<attendance_logs, unknown_faces>>
    ELSE \E acc \in {LogLoop(results, op, NoAcc)} :
         /\ Len(attendance_logs) + Len(acc.pending) <= MaxLogs
         /\ unknown_faces + acc.unknown_count <= MaxUnknown
         /\ attendance_logs' = attendance_logs \o acc.pending
         /\ unknown_faces' = unknown_faces + acc.unknown_count
         /\ uploads' = Overtake(waiting, acc.pending)
         /\ response' = [op |-> op, status |-> 200, user |-> None,
                         overtaken |-> overtaken,
                         total_faces |-> Len(results),
                         recognized |-> Len(results) - acc.unknown_count,
                         unknown |-> acc.unknown_count,
                         logged_users |-> acc.logged_users,
                         results |-> Public(results),
                         faces |-> frame.faces]

\* the body both recognition endpoints share from recognize_faces to the return;
\* waiting = the upload requests that stay suspended meanwhile
Recognize(op, frame, overtaken, waiting) ==
  \E results \in {recognize_faces(frame)} :
    IF RaisedIn(results)
    THEN /\ response' = [NoResponse EXCEPT !.op = op, !.status = 500,
                                           !.overtaken = overtaken,
                                           !.faces = frame.faces]
         /\ uploads' = waiting
         /\ UNCHANGED <<attendance_logs, unknown_faces>>
    ELSE \E acc \in {LogLoop(results, op, NoAcc)} :
         /\ Len(attendance_logs) + Len(acc.pending) <= MaxLogs
         /\ unknown_faces + acc.unknown_count <= MaxUnknown
         /\ attendance_logs' = attendance_logs \o acc.pending
         /\ unknown_faces' = unknown_faces + acc.unknown_count
         /\ uploads' = Overtake(waiting, acc.pending)
         /\ response' = [op |-> op, status |-> 200, user |-> None,
                         overtaken |-> overtaken,
                         total_faces |-> Len(results),
                         recognized |-> Len(acc.logged_users),
                         unknown |-> acc.unknown_count,
                         logged_users |-> acc.logged_users,
                         results |-> Public(results),
                         faces |-> frame.faces]

\* CameraService.read_frame can return a frame
CanRead == camera = "opened" /\ is_running

\* POST /camera/recognize with a frame read from the camera
RecognizeCurrentFrame(frame) ==
  /\ CanRead
  /\ Recognize("recognize", frame, FALSE, uploads)
  /\ UNCHANGED <<now, ticks, camera, is_running, streams, window_rejected, indexVars>>

\* POST /camera/recognize when read_frame returns None
RecognizeNoFrame ==
  /\ response' = [NoResponse EXCEPT !.op = "recognize", !.status = 400]
  /\ UNCHANGED <<now, ticks, attendance_logs, unknown_faces, camera, is_running, streams,
                 uploads, window_rejected, indexVars>>

\* POST /camera/recognize-upload up to "contents = await file.read()"
UploadReceive(frame, cap) ==
  /\ Len(uploads) < cap
  /\ uploads' = Append(uploads, [frame |-> frame, overtaken |-> FALSE])
  /\ response' = NoResponse
  /\ UNCHANGED <<now, ticks, attendance_logs, unknown_faces, camera, is_running, streams,
                 window_rejected, indexVars>>

Without(reqs, k) == [i \in 1..(Len(reqs) - 1) |-> IF i < k THEN reqs[i] ELSE reqs[i + 1]]

\* POST /camera/recognize-upload from cv2.imdecode to the response
UploadProcess(k) ==
  /\ k \in 1..Len(uploads)
  /\ IF uploads[k].frame.decodable
     THEN Recognize("recognize-upload", uploads[k].frame, uploads[k].overtaken,
                    Without(uploads, k))
     ELSE /\ response' = [NoResponse EXCEPT !.op = "recognize-upload", !.status = 500,
                                            !.overtaken = uploads[k].overtaken]
          /\ uploads' = Without(uploads, k)
          /\ UNCHANGED <<attendance_logs, unknown_faces>>
  /\ UNCHANGED <<now, ticks, camera, is_running, streams, window_rejected, indexVars>>

\* the sign-in comparison written with < in place of <=
WindowAllowsExclusive(role, event_type, t) ==
  IF role = "student"
  THEN IF event_type = "entry" THEN signin_start < t /\ t < signin_end
       ELSE IF event_type = "exit" THEN logout_start <= t /\ t <= logout_end
       ELSE TRUE
  ELSE TRUE

\* the time restrictions for students of log_attendance
WindowAllows(role, event_type, t) ==
  IF role = "student"
  THEN IF event_type = "entry" THEN signin_start <= t /\ t <= signin_end
       ELSE IF event_type = "exit" THEN logout_start <= t /\ t <= logout_end
       ELSE TRUE
  ELSE TRUE

\* POST /attendance/ with the row committed before the time check
log_attendance_commit_first(user_id, event_type) ==
  /\ IF user_id \notin UserIds \/ users[user_id] = "none"
     THEN /\ response' = [NoResponse EXCEPT !.op = "log_attendance", !.status = 404,
                                            !.user = user_id]
          /\ UNCHANGED <<attendance_logs, window_rejected, uploads>>
     ELSE /\ Len(attendance_logs) < MaxLogs
          /\ attendance_logs' = Append(attendance_logs, NewLog(user_id, event_type, "api"))
          /\ uploads' = [i \in 1..Len(uploads) |-> [uploads[i] EXCEPT !.overtaken = TRUE]]
          /\ IF ~WindowAllows(users[user_id], event_type, TimeOfDay(now))
             THEN /\ response' = [NoResponse EXCEPT !.op = "log_attendance", !.status = 403,
                                                    !.user = user_id]
                  /\ window_rejected' = [user |-> user_id, at |-> now]
             ELSE /\ response' = [NoResponse EXCEPT !.op = "log_attendance", !.status = 201,
                                                    !.user = user_id]
                  /\ UNCHANGED window_rejected
  /\ UNCHANGED <<now, ticks, unknown_faces, camera, is_running, streams, indexVars>>

\* POST /attendance/
log_attendance(user_id, event_type) ==
  /\ IF user_id \notin UserIds \/ users[user_id] = "none"
     THEN /\ response' = [NoResponse EXCEPT !.op = "log_attendance", !.status = 404,
                                            !.user = user_id]
          /\ UNCHANGED <<attendance_logs, window_rejected, uploads>>
     ELSE IF ~WindowAllows(users[user_id], event_type, TimeOfDay(now))
     THEN /\ response' = [NoResponse EXCEPT !.op = "log_attendance", !.status = 403,
                                            !.user = user_id]
          /\ window_rejected' = [user |-> user_id, at |-> now]
          /\ UNCHANGED <<attendance_logs, uploads>>
     ELSE /\ Len(attendance_logs) < MaxLogs
          /\ attendance_logs' = Append(attendance_logs, NewLog(user_id, event_type, "api"))
          /\ response' = [NoResponse EXCEPT !.op = "log_attendance", !.status = 201,
                                            !.user = user_id]
          /\ uploads' = [i \in 1..Len(uploads) |-> [uploads[i] EXCEPT !.overtaken = TRUE]]
          /\ UNCHANGED window_rejected
  /\ UNCHANGED <<now, ticks, unknown_faces, camera, is_running, streams, indexVars>>

\* a minute passes; the response has been delivered
Tick ==
  /\ ticks < MaxTicks
  /\ now' = now + 1
  /\ ticks' = ticks + 1
  /\ response' = NoResponse
  /\ window_rejected' = IF window_rejected.at = now THEN window_rejected ELSE NoRejection
  /\ UNCHANGED <<attendance_logs, unknown_faces, camera, is_running, streams, uploads, indexVars>>

\* ------------------------------------------------- reload and live feed
CurrentIndex ==
  [encs |-> known_face_encodings, ids |-> known_face_ids, names |-> known_face_names]

\* the indexes a reload of the folder can end with, one for each listing order
Posts(fs) == {LoadFiles(order, EmptyIndex) : order \in Listings(fs)}

Idle == [op |-> "idle", pc |-> "idle", todo |-> <<>>, cur |-> None, pre |-> EmptyIndex]
Reloading == task.pc # "idle"

FeedIdle ==
  [pc |-> "idle", faces |-> <<>>, encs |-> <<>>, best |-> 0,
   result |-> UnknownResult(0), valid |-> {}, overlapped |-> 0]

\* the complete indexes that exist while a match starts
CompleteNow ==
  IF Reloading THEN {task.pre} \cup Posts(files) ELSE {CurrentIndex}

\* a handler reaches its call of reload_known_faces; a match in progress now
\* also overlaps the index this reload will leave
EnterReload(op, fs) ==
  /\ feed.overlapped < MaxOverlap
  /\ task' = [op |-> op, pc |-> "clear_encs", todo |-> <<>>, cur |-> None,
              pre |-> CurrentIndex]
  /\ feed' = IF feed.pc \in {"idle", "failed"} THEN feed
             ELSE [feed EXCEPT !.valid = @ \cup Posts(fs), !.overlapped = @ + 1]
  /\ response' = NoResponse

\* GET /camera/reload-faces up to the call of reload_known_faces
reload_faces ==
  /\ ~Reloading
  /\ EnterReload("reload-faces", files)
  /\ UNCHANGED <<gateVarsButResponse, users, photos, files, known_face_encodings, known_face_ids,
                 known_face_names>>

\* what an uploaded photo shows; in "no_encoding" face_locations finds one
\* face and face_encodings none
Photos == {"one_face", "no_face", "two_faces", "no_encoding"}

\* save_face_encoding writes user_<id>.pkl; another .pkl file of that id stays
AfterSave(state) == IF state = "absent" THEN "ok" ELSE "copied"
\* delete_face_encoding removes user_<id>.pkl only
AfterRemove(state) == IF state = "copied" THEN "ok" ELSE "absent"

\* POST /users/ answering 400 with the photo left in UPLOAD_FOLDER
create_user_keep_photo(u, role, photo) ==
  /\ ~Reloading
  /\ users[u] = "none"
  /\ IF photo # "one_face"
     THEN /\ response' = [NoResponse EXCEPT !.op = "create_user", !.status = 400]
          /\ photos' = [photos EXCEPT ![u] = photo]
          /\ UNCHANGED <<users, files, task, feed>>
     ELSE /\ users' = [users EXCEPT ![u] = role]
          /\ photos' = [photos EXCEPT ![u] = photo]
          /\ files' = [files EXCEPT ![u] = AfterSave(@)]
          /\ EnterReload("create_user", [files EXCEPT ![u] = AfterSave(@)])
  /\ UNCHANGED <<gateVarsButResponse, known_face_encodings, known_face_ids,
                 known_face_names>>

\* POST /users/ up to the call of reload_known_faces; the database gives the
\* new row the id u. The photo is saved first and removed again when it does
\* not show one face or gives no encoding
create_user(u, role, photo) ==
  /\ ~Reloading
  /\ users[u] = "none"
  /\ IF photo # "one_face"
     THEN /\ response' = [NoResponse EXCEPT !.op = "create_user", !.status = 400]
          /\ UNCHANGED <<users, photos, files, task, feed>>
     ELSE /\ users' = [users EXCEPT ![u] = role]
          /\ photos' = [photos EXCEPT ![u] = photo]
          /\ files' = [files EXCEPT ![u] = AfterSave(@)]
          /\ EnterReload("create_user", [files EXCEPT ![u] = AfterSave(@)])
  /\ UNCHANGED <<gateVarsButResponse, known_face_encodings, known_face_ids,
                 known_face_names>>

\* DELETE /users/{user_id} returning after the commit, without the reload
delete_user_no_reload(u) ==
  /\ ~Reloading
  /\ IF users[u] = "none"
     THEN /\ response' = [NoResponse EXCEPT !.op = "delete_user", !.status = 404,
                                            !.user = u]
          /\ UNCHANGED <<users, photos, files>>
     ELSE /\ files' = [files EXCEPT ![u] = AfterRemove(@)]
          /\ photos' = [photos EXCEPT ![u] = "absent"]
          /\ IF \E i \in 1..Len(attendance_logs) : attendance_logs[i].user_id = u
             THEN /\ response' = [NoResponse EXCEPT !.op = "delete_user", !.status = 500,
                                                    !.user = u]
                  /\ UNCHANGED users
             ELSE /\ users' = [users EXCEPT ![u] = "none"]
                  /\ response' = [NoResponse EXCEPT !.op = "delete_user", !.status = 204]
  /\ UNCHANGED <<gateVarsButResponse, known_face_encodings, known_face_ids,
                 known_face_names, task, feed>>

\* DELETE /users/{user_id} with the user's attendance rows deleted in cascade
delete_user_cascade(u) ==
  /\ ~Reloading
  /\ IF users[u] = "none"
     THEN /\ response' = [NoResponse EXCEPT !.op = "delete_user", !.status = 404,
                                            !.user = u]
          /\ UNCHANGED <<users, photos, files, task, feed, attendance_logs>>
     ELSE /\ files' = [files EXCEPT ![u] = AfterRemove(@)]
          /\ photos' = [photos EXCEPT ![u] = "absent"]
          /\ users' = [users EXCEPT ![u] = "none"]
          /\ attendance_logs' = SelectSeq(attendance_logs, LAMBDA row : row.user_id # u)
          /\ EnterReload("delete_user", [files EXCEPT ![u] = AfterRemove(@)])
  /\ UNCHANGED <<now, ticks, unknown_faces, camera, is_running, streams, uploads,
                 window_rejected, tolerance, known_face_encodings, known_face_ids,
                 known_face_names>>

\* DELETE /users/{user_id} up to the call of reload_known_faces; deleting a
\* user who has attendance rows sets their user_id to NULL, which the
\* NOT NULL column refuses at the commit
delete_user(u) ==
  /\ ~Reloading
  /\ IF users[u] = "none"
     THEN /\ response' = [NoResponse EXCEPT !.op = "delete_user", !.status = 404,
                                            !.user = u]
          /\ UNCHANGED <<users, photos, files, task, feed>>
     ELSE /\ files' = [files EXCEPT ![u] = AfterRemove(@)]
          /\ photos' = [photos EXCEPT ![u] = "absent"]
          /\ IF \E i \in 1..Len(attendance_logs) : attendance_logs[i].user_id = u
             THEN /\ response' = [NoResponse EXCEPT !.op = "delete_user", !.status = 500,
                                                    !.user = u]
                  /\ UNCHANGED <<users, task, feed>>
             ELSE /\ users' = [users EXCEPT ![u] = "none"]
                  /\ EnterReload("delete_user", [files EXCEPT ![u] = AfterRemove(@)])
  /\ UNCHANGED <<gateVarsButResponse, known_face_encodings, known_face_ids,
                 known_face_names>>

\* self.known_face_encodings = []
ClearEncodings ==
  /\ task.pc = "clear_encs"
  /\ known_face_encodings' = <<>>
  /\ task' = [task EXCEPT !.pc = "clear_ids"]
  /\ UNCHANGED <<gateVars, users, photos, files, known_face_ids, known_face_names, feed>>

\* self.known_face_ids = []
ClearIds ==
  /\ task.pc = "clear_ids"
  /\ known_face_ids' = <<>>
  /\ task' = [task EXCEPT !.pc = "clear_names"]
  /\ UNCHANGED <<gateVars, users, photos, files, known_face_encodings, known_face_names, feed>>

\* self.known_face_names = []
ClearNames ==
  /\ task.pc = "clear_names"
  /\ known_face_names' = <<>>
  /\ task' = [task EXCEPT !.pc = "list"]
  /\ UNCHANGED <<gateVars, users, photos, files, known_face_encodings, known_face_ids, feed>>

\* for filename in os.listdir(embeddings_folder)
ListFolder ==
  /\ task.pc = "list"
  /\ \E order \in Listings(files) : task' = [task EXCEPT !.pc = "load", !.todo = order]
  /\ UNCHANGED <<gateVars, users, photos, files, known_face_encodings, known_face_ids,
                 known_face_names, feed>>

\* pickle.load of the next file and the append of its encoding; a file that
\* does not load is reported on the console and skipped
LoadEncoding ==
  /\ task.pc = "load"
  /\ task.todo # <<>>
  /\ LET u == Head(task.todo)
     IN IF AppendsOf(files[u]) = 0
        THEN /\ task' = [task EXCEPT !.todo = Tail(@)]
             /\ UNCHANGED known_face_encodings
        ELSE /\ known_face_encodings' = Append(known_face_encodings, EncOf(u))
             /\ task' = [task EXCEPT !.todo = Tail(@), !.cur = u, !.pc = "append_id"]
  /\ UNCHANGED <<gateVars, users, photos, files, known_face_ids, known_face_names, feed>>

\* self.known_face_ids.append(data["user_id"])
AppendId ==
  /\ task.pc = "append_id"
  /\ IF AppendsOf(files[task.cur]) < 2
     THEN /\ task' = [task EXCEPT !.pc = "load", !.cur = None]
          /\ UNCHANGED known_face_ids
     ELSE /\ known_face_ids' = Append(known_face_ids, task.cur)
          /\ task' = [task EXCEPT !.pc = "append_name"]
  /\ UNCHANGED <<gateVars, users, photos, files, known_face_encodings, known_face_names, feed>>

\* self.known_face_names.append(data["name"])
AppendName ==
  /\ task.pc = "append_name"
  /\ known_face_names' = IF AppendsOf(files[task.cur]) < 3 THEN known_face_names
                         ELSE Append(known_face_names, NameOf(task.cur))
  /\ task' = [task EXCEPT !.pc = "load", !.cur = None]
  /\ UNCHANGED <<gateVars, users, photos, files, known_face_encodings, known_face_ids, feed>>

StatusOf(op) ==
  CASE op = "create_user" -> 201
    [] op = "delete_user" -> 204
    [] OTHER -> 200

\* load_known_faces returns and the handler sends its response
FinishReload ==
  /\ task.pc = "load"
  /\ task.todo = <<>>
  /\ task' = Idle
  /\ response' = [NoResponse EXCEPT !.op = task.op, !.status = StatusOf(task.op),
                                    !.total_faces = Len(known_face_encodings)]
  /\ UNCHANGED <<gateVarsButResponse, users, photos, files, known_face_encodings, known_face_ids,
                 known_face_names, feed>>

\* the folder is changed on disk behind the service: a file is damaged or copied
CorruptFile(u, state) ==
  /\ ~Reloading
  /\ files[u] = "ok"
  /\ Cardinality({v \in UserIds : files[v] \notin {"ok", "absent"}}) < MaxDamaged
  /\ files' = [files EXCEPT ![u] = state]
  /\ response' = NoResponse
  /\ UNCHANGED <<gateVarsButResponse, users, photos, known_face_encodings, known_face_ids,
                 known_face_names, task, feed>>

\* generate_frames: read_frame returns a frame, recognize_faces detects its faces
FeedFrame(frame) ==
  /\ feed.pc = "idle"
  /\ CanRead
  /\ feed' = IF frame.faces = <<>> THEN FeedIdle
             ELSE [FeedIdle EXCEPT !.pc = "len", !.faces = frame.faces,
                                   !.valid = CompleteNow]
  /\ UNCHANGED <<gateVars, users, photos, files, known_face_encodings, known_face_ids,
                 known_face_names, task>>

\* if len(self.known_face_encodings) == 0
FeedLen ==
  /\ feed.pc = "len"
  /\ feed' = IF Len(known_face_encodings) = 0
             THEN [feed EXCEPT !.pc = "matched", !.result = UnknownResult(0)]
             ELSE [feed EXCEPT !.pc = "dist"]
  /\ UNCHANGED <<gateVars, users, photos, files, known_face_encodings, known_face_ids,
                 known_face_names, task>>

\* face_distance over the list as it is now, np.argmin, the tolerance test
FeedDistance ==
  /\ feed.pc = "dist"
  /\ feed' =
       IF Len(known_face_encodings) = 0 \/ Head(feed.faces) = Malformed
       THEN [feed EXCEPT !.pc = "failed", !.result = Raised("ValueError")]
       ELSE LET ds == FaceDistance(known_face_encodings, Head(feed.faces))
                best == ArgMin(ds)
            IN IF ds[best] <= tolerance
               THEN [feed EXCEPT !.pc = "ids", !.encs = known_face_encodings,
                                 !.best = best,
                                 !.result = [UnknownResult(One - ds[best])
                                               EXCEPT !.is_recognized = TRUE]]
               ELSE [feed EXCEPT !.pc = "matched", !.encs = known_face_encodings,
                                 !.result = UnknownResult(One - ds[best])]
  /\ UNCHANGED <<gateVars, users, photos, files, known_face_encodings, known_face_ids,
                 known_face_names, task>>

\* user_id = self.known_face_ids[best_match_index]
FeedId ==
  /\ feed.pc = "ids"
  /\ feed' =
       IF feed.best > Len(known_face_ids)
       THEN [feed EXCEPT !.pc = "failed", !.result = Raised("IndexError")]
       ELSE [feed EXCEPT !.pc = "names",
                         !.result.user_id = known_face_ids[feed.best]]
  /\ UNCHANGED <<gateVars, users, photos, files, known_face_encodings, known_face_ids,
                 known_face_names, task>>

\* name = self.known_face_names[best_match_index]
FeedName ==
  /\ feed.pc = "names"
  /\ feed' =
       IF feed.best > Len(known_face_names)
       THEN [feed EXCEPT !.pc = "failed", !.result = Raised("IndexError")]
       ELSE [feed EXCEPT !.pc = "matched",
                         !.result.name = known_face_names[feed.best]]
  /\ UNCHANGED <<gateVars, users, photos, files, known_face_encodings, known_face_ids,
                 known_face_names, task>>

\* the feed storing what it matched, as POST /camera/recognize does
FeedNextLogging ==
  /\ feed.pc = "matched"
  /\ feed' = IF Tail(feed.faces) = <<>> THEN FeedIdle
             ELSE [FeedIdle EXCEPT !.pc = "len", !.faces = Tail(feed.faces),
                                   !.valid = CompleteNow]
  /\ IF feed.result.is_recognized
     THEN /\ Len(attendance_logs) < MaxLogs
          /\ attendance_logs' = Append(attendance_logs,
                                       NewLog(feed.result.user_id, "entry", "feed"))
          /\ UNCHANGED unknown_faces
     ELSE /\ unknown_faces < MaxUnknown
          /\ unknown_faces' = unknown_faces + 1
          /\ UNCHANGED attendance_logs
  /\ UNCHANGED <<now, ticks, camera, is_running, streams, uploads, response, window_rejected,
                 tolerance, users, photos, files, known_face_encodings, known_face_ids,
                 known_face_names, task>>

\* the result is appended; the loop goes to the next face, or the frame is
\* drawn and yielded
FeedNext ==
  /\ feed.pc = "matched"
  /\ feed' = IF Tail(feed.faces) = <<>> THEN FeedIdle
             ELSE [FeedIdle EXCEPT !.pc = "len", !.faces = Tail(feed.faces),
                                   !.valid = CompleteNow]
  /\ UNCHANGED <<gateVars, users, photos, files, known_face_encodings, known_face_ids,
                 known_face_names, task>>

\* the exception ended the stream; the browser requests /camera/feed again
FeedReopen ==
  /\ feed.pc = "failed"
  /\ feed' = FeedIdle
  /\ UNCHANGED <<gateVars, users, photos, files, known_face_encodings, known_face_ids,
                 known_face_names, task>>

\* ------------------------------------------------------------ the camera
\* the rest of the state, which no camera operation touches
notCamera == <<now, ticks, attendance_logs, unknown_faces, uploads, window_rejected,
               tolerance, users, files, photos, known_face_encodings, known_face_ids,
               known_face_names, feed>>

\* POST /camera/start: the new capture replaces self.camera before isOpened is
\* asked; a capture that did not open raises before is_running is assigned
start_camera(opens) ==
  /\ ~Reloading
  /\ camera' = IF opens THEN "opened" ELSE "unopened"
  /\ is_running' = IF opens THEN TRUE ELSE is_running
  /\ response' = [NoResponse EXCEPT !.op = "start_camera",
                                    !.status = IF opens THEN 200 ELSE 500]
  /\ UNCHANGED <<notCamera, task, streams>>

\* POST /camera/stop up to "self.is_running = False"; the generators run in
\* worker threads and go on between the statements of stop_camera
stop_camera ==
  /\ ~Reloading
  /\ IF camera = "None"
     THEN /\ response' = [NoResponse EXCEPT !.op = "stop_camera", !.status = 200]
          /\ UNCHANGED <<is_running, task>>
     ELSE /\ is_running' = FALSE
          /\ task' = [Idle EXCEPT !.op = "stop_camera", !.pc = "release"]
          /\ response' = NoResponse
  /\ UNCHANGED <<notCamera, camera, streams>>

\* self.camera.release(), on the capture self.camera is now
StopRelease ==
  /\ task.pc = "release"
  /\ camera' = "released"
  /\ task' = [task EXCEPT !.pc = "clear"]
  /\ UNCHANGED <<notCamera, is_running, response, streams>>

\* self.camera = None, and the handler answers
StopClear ==
  /\ task.pc = "clear"
  /\ camera' = "None"
  /\ task' = Idle
  /\ response' = [NoResponse EXCEPT !.op = "stop_camera", !.status = 200]
  /\ UNCHANGED <<notCamera, is_running, streams>>

\* a generator that is not running: never made, returned, or ended by an exception
Ended == {"none", "done", "raised"}

\* GET /camera/feed: the handler makes the generator and returns the
\* StreamingResponse; the body runs in a worker thread from its first next()
video_feed(s) ==
  /\ ~Reloading
  /\ streams[s] \in Ended
  /\ streams' = [streams EXCEPT ![s] = "begin"]
  /\ response' = [NoResponse EXCEPT !.op = "video_feed", !.status = 200]
  /\ UNCHANGED <<notCamera, camera, is_running, task>>

\* if not self.is_running: self.start_camera()
GenBegin(s, opens) ==
  /\ streams[s] = "begin"
  /\ IF is_running
     THEN /\ streams' = [streams EXCEPT ![s] = "while"]
          /\ UNCHANGED <<camera, is_running>>
     ELSE /\ camera' = IF opens THEN "opened" ELSE "unopened"
          /\ is_running' = opens
          /\ streams' = [streams EXCEPT ![s] = IF opens THEN "while" ELSE "raised"]
  /\ UNCHANGED <<notCamera, response, task>>

\* the loop waiting for the camera to run again in place of ending
GenWhileWaits(s) ==
  /\ streams[s] = "while"
  /\ streams' = [streams EXCEPT ![s] = IF is_running THEN "check" ELSE "while"]
  /\ UNCHANGED <<notCamera, camera, is_running, response, task>>

\* while self.is_running
GenWhile(s) ==
  /\ streams[s] = "while"
  /\ streams' = [streams EXCEPT ![s] = IF is_running THEN "check" ELSE "done"]
  /\ UNCHANGED <<notCamera, camera, is_running, response, task>>

\* read_frame: if self.camera is None or not self.is_running: return None,
\* on which the loop breaks
ReadCheck(s) ==
  /\ streams[s] = "check"
  /\ streams' = [streams EXCEPT ![s] = IF camera = "None" \/ ~is_running THEN "done"
                                       ELSE "read"]
  /\ UNCHANGED <<notCamera, camera, is_running, response, task>>

\* read_frame: ret, frame = self.camera.read(). None has no read; a capture
\* that is not open returns ret False; an open one returns ret as it likes
ReadFrame(s, ret) ==
  /\ streams[s] = "read"
  /\ streams' = [streams EXCEPT ![s] =
                   CASE camera = "None" -> "raised"
                     [] camera = "opened" /\ ret -> "encode"
                     [] OTHER -> "done"]
  /\ UNCHANGED <<notCamera, camera, is_running, response, task>>

\* recognize_faces, draw_bounding_boxes and cv2.imencode; a frame that does
\* not encode is skipped
GenEncode(s, ret) ==
  /\ streams[s] = "encode"
  /\ streams' = [streams EXCEPT ![s] = IF ret THEN "yield" ELSE "while"]
  /\ UNCHANGED <<notCamera, camera, is_running, response, task>>

\* the response has sent the frame and asks for the next
GenYield(s) ==
  /\ streams[s] = "yield"
  /\ streams' = [streams EXCEPT ![s] = "while"]
  /\ UNCHANGED <<notCamera, camera, is_running, response, task>>

\* a step of the worker thread iterating generator s
StreamStep(s) ==
  \/ \E opens \in BOOLEAN : GenBegin(s, opens)
  \/ GenWhile(s)
  \/ ReadCheck(s)
  \/ \E ret \in BOOLEAN : ReadFrame(s, ret)
  \/ \E ret \in BOOLEAN : GenEncode(s, ret)
  \/ GenYield(s)

\* ------------------------------------------------------------------ Init
\* the role of the user registered under id u when the process starts
InitRole(u) == IF u % 2 = 1 THEN "student" ELSE "employee"

\* the process starts at one of the clock readings given, on a database and
\* an embeddings folder that hold the registered users;
\* FaceRecognitionService.__init__ loads the index from the folder
BootWith(times, listings, tolerances) ==
  /\ now \in times
  /\ tolerance \in tolerances
  /\ ticks = 0
  /\ users = [u \in UserIds |-> InitRole(u)]
  /\ files = [u \in UserIds |-> "ok"]
  /\ photos = [u \in UserIds |-> "one_face"]
  /\ \E order \in listings :
       LET idx == LoadFiles(order, EmptyIndex)
       IN /\ known_face_encodings = idx.encs
          /\ known_face_ids = idx.ids
          /\ known_face_names = idx.names
  /\ attendance_logs = <<>>
  /\ unknown_faces = 0
  /\ uploads = <<>>
  /\ response = NoResponse
  /\ window_rejected = NoRejection
  /\ task = Idle
  /\ feed = FeedIdle
  /\ streams = [s \in 1..MaxStreams |-> "none"]

\* the process started with the tolerance of config.py
Boot(times, listings) == BootWith(times, listings, {Tolerance})

\* CameraService.__init__
CameraOff == camera = "None" /\ is_running = FALSE
\* the state start_camera leaves when the device opens
CameraOn == camera = "opened" /\ is_running = TRUE

\* the listing that returns the files in the order of their names
Sorted(fs) == {s \in Listings(fs) : \A i \in 1..(Len(s) - 1) : s[i] < s[i + 1]}
AllOk == [u \in UserIds |-> "ok"]

InitGate == Boot(GateStartTimes, Sorted(AllOk)) /\ CameraOn

\* requests to the two recognition endpoints that arrive in the same minute
NextRace ==
  \/ \E frame \in Frames : RecognizeCurrentFrame(frame)
  \/ RecognizeNoFrame
  \/ \E frame \in UploadFrames : UploadReceive(frame, MaxInflight)
  \/ \E k \in 1..MaxInflight : UploadProcess(k)

SpecRace == InitGate /\ [][NextRace]_vars

\* the two recognition endpoints as the minutes pass
NextGate ==
  \/ Tick
  \/ \E frame \in KnownFrames : RecognizeCurrentFrame(frame)
  \/ RecognizeNoFrame
  \/ \E frame \in KnownUploadFrames : UploadReceive(frame, MaxTimedInflight)
  \/ \E k \in 1..MaxTimedInflight : UploadProcess(k)

SpecGate == InitGate /\ [][NextGate]_vars

\* the attendance endpoint next to camera recognition
NextAttendance ==
  \/ Tick
  \/ \E frame \in FramesOf(ProbeSet \ {Stranger}, 1) : RecognizeCurrentFrame(frame)
  \/ \E u \in 1..(MaxUsers + 1), ev \in EventTypes : log_attendance(u, ev)

SpecAttendance == InitGate /\ [][NextAttendance]_vars

InitWindow == Boot(WindowTimes, Sorted(AllOk)) /\ CameraOff

\* the attendance endpoint around the clock
NextWindow == \E u \in 1..(MaxUsers + 1), ev \in EventTypes : log_attendance(u, ev)

SpecWindow == InitWindow /\ [][NextWindow]_vars

InitIndex == Boot(GateStartTimes, Listings(AllOk)) /\ CameraOn

\* the frames of the live feed
FeedFrames == FramesOf(ProbeSet, MaxFeedFaces)

\* registrations, deletions and reloads while the live feed matches faces
NextIndex ==
  \/ reload_faces
  \/ \E u \in UserIds, photo \in Photos : create_user(u, InitRole(u), photo)
  \/ \E u \in UserIds : delete_user(u)
  \/ ClearEncodings
  \/ ClearIds
  \/ ClearNames
  \/ ListFolder
  \/ LoadEncoding
  \/ AppendId
  \/ AppendName
  \/ FinishReload
  \/ \E u \in UserIds, state \in {"unreadable", "noUserId", "noName"} : CorruptFile(u, state)
  \/ \E frame \in FeedFrames : FeedFrame(frame)
  \/ FeedLen
  \/ FeedDistance
  \/ FeedId
  \/ FeedName
  \/ FeedNext
  \/ FeedReopen

SpecIndex == InitIndex /\ [][NextIndex]_vars

\* the reload steps of the handler the event loop is running
ReloadStep ==
  \/ ClearEncodings
  \/ ClearIds
  \/ ClearNames
  \/ ListFolder
  \/ LoadEncoding
  \/ AppendId
  \/ AppendName
  \/ FinishReload

\* the values FACE_RECOGNITION_TOLERANCE is set to in the environment
Tolerances == {0, Tolerance, One + Tolerance}
\* the encodings of faces up to a little more than the largest tolerance
\* away from a registered face
MatchProbes == (0 - One - Tolerance - 1)..(EncOf(MaxUsers) + One + Tolerance + 1)

InitMatch == BootWith(GateStartTimes, Listings(AllOk), Tolerances) /\ CameraOn

\* single faces in front of the camera, matched against the loaded index
\* and against the index that is left when a user is deleted
NextMatch ==
  \/ \E frame \in FramesOf(MatchProbes, 1) : ~Reloading /\ RecognizeCurrentFrame(frame)
  \/ \E u \in UserIds : delete_user(u)
  \/ ReloadStep

SpecMatch == InitMatch /\ [][NextMatch]_vars

\* reloads over a folder that is changed on disk
NextLoad ==
  \/ reload_faces
  \/ \E u \in UserIds, photo \in Photos : create_user(u, InitRole(u), photo)
  \/ \E u \in UserIds : delete_user(u)
  \/ ReloadStep
  \/ \E u \in UserIds, state \in FileStates \ {"absent", "ok"} : CorruptFile(u, state)

SpecLoad == InitIndex /\ [][NextLoad]_vars

\* frames of up to MaxFaces faces, some of them with an encoding of the wrong length
StoreFrames == FramesOf(ProbeSet \cup {Malformed}, MaxFaces)

\* registrations and deletions between recognitions; the event loop runs one
\* handler at a time
NextStore ==
  \/ reload_faces
  \/ \E u \in UserIds, photo \in Photos : create_user(u, InitRole(u), photo)
  \/ \E u \in UserIds : delete_user(u)
  \/ ReloadStep
  \/ \E u \in UserIds, state \in {"unreadable", "noUserId", "noName"} : CorruptFile(u, state)
  \/ \E frame \in StoreFrames : ~Reloading /\ RecognizeCurrentFrame(frame)
  \/ ~Reloading /\ RecognizeNoFrame

SpecStore == InitIndex /\ [][NextStore]_vars

\* the live feed next to POST /camera/recognize and POST /attendance/
NextFeed ==
  \/ \E frame \in FramesOf(ProbeSet, 1) : RecognizeCurrentFrame(frame)
  \/ \E u \in UserIds, ev \in EventTypes : log_attendance(u, ev)
  \/ \E frame \in FeedFrames : FeedFrame(frame)
  \/ FeedLen
  \/ FeedDistance
  \/ FeedId
  \/ FeedName
  \/ FeedNext

SpecFeed == InitGate /\ [][NextFeed]_vars

\* accepted, suppressed, window-rejected and unknown events as the minutes
\* pass, and users deleted in between
NextEvents ==
  \/ Tick
  \/ \E frame \in FramesOf(ProbeSet, 1) : ~Reloading /\ RecognizeCurrentFrame(frame)
  \/ \E u \in UserIds : ~Reloading /\ log_attendance(u, "entry")
  \/ \E u \in UserIds : delete_user(u)
  \/ ReloadStep

SpecEvents == InitGate /\ [][NextEvents]_vars

InitCamera == Boot(GateStartTimes, Sorted(AllOk)) /\ CameraOff

\* the camera started and stopped while live feeds are streamed
NextCamera ==
  \/ \E opens \in BOOLEAN : start_camera(opens)
  \/ stop_camera
  \/ StopRelease
  \/ StopClear
  \/ \E s \in 1..MaxStreams : video_feed(s)
  \/ \E s \in 1..MaxStreams : StreamStep(s)

SpecCamera == InitCamera /\ [][NextCamera]_vars

\* the worker threads are scheduled and the responses keep asking for
\* frames; the event loop runs the handler it has started to its end
SpecCameraFair ==
  /\ SpecCamera
  /\ \A s \in 1..MaxStreams : WF_vars(StreamStep(s))
  /\ WF_vars(StopRelease \/ StopClear)

\* ------------------------------------------------------------ properties
\* the rows a step adds to attendance_logs for user u
AddedFor(u) ==
  {i \in (Len(attendance_logs) + 1)..Len(attendance_logs') : attendance_logs'[i].user_id = u}

RowsOf(rows, u) == {i \in 1..Len(rows) : rows[i].user_id = u}

\* u has a row of at most d minutes before t
HasRowWithin(rows, u, t, d) == \E i \in RowsOf(rows, u) : t - rows[i].timestamp <= d

\* the timestamp of the last row of u
LastAccepted(rows, u) ==
  CHOOSE T \in {rows[i].timestamp : i \in RowsOf(rows, u)} :
    \A i \in RowsOf(rows, u) : rows[i].timestamp <= T

\* the response shows a face recognized as u
SeenIn(resp, u) ==
  \E i \in 1..Len(resp.results) :
    resp.results[i].is_recognized /\ resp.results[i].user_id = u

\* the step is a recognition request that ran to its commit
RecognitionStep ==
  response'.op \in {"recognize", "recognize-upload"} /\ response'.status = 200

\* the student windows, in minutes of the day
InsideWindow(role, event_type, t) ==
  /\ (role = "student" /\ event_type = "entry") => (510 <= t /\ t <= 540)
  /\ (role = "student" /\ event_type = "exit") => (810 <= t /\ t <= 840)

\* C1: whichever way recognition requests overlap, a request creates exactly
\* one row for an identity it recognizes that has no row in the last five
\* minutes, and none for an identity that has one: the check and the insert
\* of a request are one step
C1_CheckThenInsertAtomic ==
  [][RecognitionStep =>
       \A u \in UserIds :
         Cardinality(AddedFor(u)) =
           IF SeenIn(response', u) /\ ~HasRowWithin(attendance_logs, u, now, 5)
           THEN 1 ELSE 0]_vars

\* an upload that was suspended while another request logged the identity it
\* shows has been processed, and the identity has its one row
C1_Witness ==
  /\ response.op = "recognize-upload"
  /\ response.status = 200
  /\ response.overtaken
  /\ response.recognized = 0
  /\ Len(attendance_logs) = 1
  /\ SeenIn(response, attendance_logs[1].user_id)

C3_OnlyGateCreates ==
  [][\A u \in UserIds :
       AddedFor(u) # {} =>
         /\ ~HasRowWithin(attendance_logs, u, now, 4)
         /\ Cardinality(AddedFor(u)) = 1]_vars

\* C4 as stated: with the last row of the identity at T, a recognition at t
\* is rejected when t - T < 5 and accepted when t - T >= 5
C4_EligibleAtFive ==
  [][RecognitionStep =>
       \A u \in UserIds :
         (SeenIn(response', u) /\ RowsOf(attendance_logs, u) # {}) =>
           LET T == LastAccepted(attendance_logs, u)
           IN /\ now - T < 5 => AddedFor(u) = {}
              /\ now - T >= 5 => Cardinality(AddedFor(u)) = 1]_vars

\* C4 amended: with the last row of the identity at T, a recognition at t is
\* rejected when t - T <= 5 and accepted when t - T > 5; the passing of time
\* alone changes no row
C4_EligibleAfterFive ==
  [][/\ RecognitionStep =>
          \A u \in UserIds :
            (SeenIn(response', u) /\ RowsOf(attendance_logs, u) # {}) =>
              LET T == LastAccepted(attendance_logs, u)
              IN /\ now - T <= 5 => AddedFor(u) = {}
                 /\ now - T > 5 => Cardinality(AddedFor(u)) = 1
     /\ now' # now => attendance_logs' = attendance_logs]_vars

\* a recognition exactly five minutes after the identity's row was rejected
C4_Witness ==
  /\ response.op \in {"recognize", "recognize-upload"}
  /\ response.status = 200
  /\ response.recognized = 0
  /\ \E u \in UserIds :
       /\ SeenIn(response, u)
       /\ RowsOf(attendance_logs, u) # {}
       /\ now - LastAccepted(attendance_logs, u) = 5

\* C5: a recognition endpoint creates an entry row for a student only
\* between 08:30 and 09:00
C5_WindowBeforeDedup ==
  [][RecognitionStep =>
       \A i \in (Len(attendance_logs) + 1)..Len(attendance_logs') :
         (users[attendance_logs'[i].user_id] = "student"
          /\ attendance_logs'[i].event_type = "entry")
         => InsideWindow("student", "entry", now % 1440)]_vars

\* C6: an attempt the time window refuses adds no row, and an attempt for
\* the same identity inside the window less than the cooldown later is
\* accepted
C6_RejectionLeavesNoTrace ==
  [][/\ (response'.op = "log_attendance" /\ response'.status = 403)
          => (attendance_logs' = attendance_logs /\ unknown_faces' = unknown_faces)
     /\ \A u \in UserIds :
          (window_rejected.user = u /\ now - window_rejected.at < 5) =>
            /\ \A ev \in EventTypes :
                 (log_attendance(u, ev) /\ InsideWindow(users[u], ev, now % 1440))
                 => (response'.status = 201 /\ Cardinality(AddedFor(u)) = 1)
            /\ (RecognitionStep /\ SeenIn(response', u)
                /\ ~HasRowWithin(attendance_logs, u, now, 5))
               => Cardinality(AddedFor(u)) = 1]_vars

\* a student refused in one minute was accepted in the next
C6_Witness ==
  /\ response.op = "log_attendance"
  /\ response.status = 201
  /\ window_rejected.user = response.user
  /\ window_rejected.at = now - 1
  /\ attendance_logs # <<>>
  /\ attendance_logs[Len(attendance_logs)].user_id = response.user
  /\ attendance_logs[Len(attendance_logs)].timestamp = now

\* C7: log_attendance accepts a student entry iff 08:30 <= t <= 09:00 and a
\* student exit iff 13:30 <= t <= 14:00, on every day, and restricts no
\* other role or event type
C7_WindowInclusive ==
  [][\A u \in UserIds, ev \in EventTypes :
       log_attendance(u, ev) =>
         /\ response'.status \in {201, 403}
         /\ response'.status = 201 <=> InsideWindow(users[u], ev, now % 1440)]_vars

\* a student signed in at 09:00 sharp on the second day
C7_Witness ==
  /\ response.op = "log_attendance"
  /\ response.status = 201
  /\ users[response.user] = "student"
  /\ now = 1440 + 540
  /\ attendance_logs[Len(attendance_logs)].event_type = "entry"
  /\ attendance_logs[Len(attendance_logs)].timestamp = now


\* ---------------------------------------------------- reload and the feed
WellFormed(v) == Len(v.encs) = Len(v.ids) /\ Len(v.ids) = Len(v.names)

\* the identities an index holds, position by position
EntriesOf(v) ==
  {<<v.ids[i], v.names[i]>> : i \in 1..(IF Len(v.ids) < Len(v.names) THEN Len(v.ids)
                                        ELSE Len(v.names))}

\* the users whose embedding file is in the folder
Stored(fs) == {u \in UserIds : fs[u] # "absent"}

\* C8: a match of the live feed that runs while reload_known_faces runs is
\* computed against the complete index from before the reload or the complete
\* index from after it, never against an empty or partly filled list
C8_ReloadAtomic ==
  feed.pc = "matched" => \E v \in feed.valid : feed.encs = v.encs

\* C9: while every stored embedding file is sound, a reload never makes a
\* match of the live feed raise, and a recognised result carries the user_id
\* and name of one identity of the index before or after the reload
C9_ReloadKeepsMatches ==
  (\A v \in feed.valid : WellFormed(v)) =>
     /\ feed.pc # "failed"
     /\ (feed.pc = "matched" /\ feed.result.is_recognized) =>
          \E v \in feed.valid :
             <<feed.result.user_id, feed.result.name>> \in EntriesOf(v)

\* C10: when a handler has finished reload_known_faces, the index holds
\* exactly the identities whose embedding file is stored, each of them once
C10_ReloadRoundTrip ==
  (response.op \in {"reload-faces", "create_user", "delete_user"}
     /\ response.status \in {200, 201, 204}) =>
       /\ WellFormed(CurrentIndex)
       /\ Len(known_face_ids) = Cardinality(Stored(files))
       /\ \A u \in Stored(files) :
            \E i \in 1..Len(known_face_ids) :
               /\ known_face_encodings[i] = EncOf(u)
               /\ known_face_ids[i] = u
               /\ known_face_names[i] = NameOf(u)


\* -------------------------------------------------- stored identity sets
\* the folder holds two files that carry the same user id
HasDuplicate(fs) == \E u \in UserIds : PklFiles(fs[u]) > 1

\* the step on which the reloading handler returns
ReloadReturns == task.pc = "load" /\ task'.pc = "idle"

\* C11: a reload over a folder that holds two entries with the same user id
\* ends with an error and leaves the index as it was before the reload
C11_DuplicateRejected ==
  [][(ReloadReturns /\ HasDuplicate(files)) =>
       /\ response'.status \notin {200, 201, 204}
       /\ CurrentIndex' = task.pre]_vars

\* C12: once delete_user has returned for a user, the index does not hold
\* the user's id or encoding, no recognition returns the id and the user has
\* no attendance row
C12_DeletedIsPurged ==
  \A u \in UserIds :
    (users[u] = "none" /\ ~Reloading) =>
      /\ u \notin Range(known_face_ids)
      /\ EncOf(u) \notin Range(known_face_encodings)
      /\ ~SeenIn(response, u)
      /\ RowsOf(attendance_logs, u) = {}

\* a frame showing a deleted user was matched against the users that remain
\* and reported unknown
C12_Witness ==
  /\ response.op = "recognize"
  /\ response.status = 200
  /\ response.unknown = 1
  /\ \E u, v \in UserIds :
       /\ users[u] = "none"
       /\ users[v] # "none"
       /\ response.results[1].confidence = One - Abs(EncOf(u) - EncOf(v))


\* ------------------------------------------------------------- matching
\* the least distance of the probe to an entry of a non-empty index
MinDistance(probe) ==
  LET ds == {Abs(known_face_encodings[i] - probe) : i \in 1..Len(known_face_encodings)}
  IN CHOOSE d \in ds : \A e \in ds : d <= e

\* the step answers a recognition of one face matched against a non-empty index
MatchesFace ==
  /\ response'.op = "recognize"
  /\ response'.status \in {200, 500}
  /\ Len(response'.faces) = 1
  /\ known_face_encodings # <<>>

\* C13: for every probe and tolerance the result is recognized exactly when
\* the least distance is at most the tolerance, and a result that is not
\* recognized carries no user id
C13_RecognizedIffWithinTolerance ==
  [][MatchesFace =>
       /\ response'.status = 200
       /\ response'.results[1].is_recognized <=>
            (MinDistance(response'.faces[1]) <= tolerance)
       /\ ~response'.results[1].is_recognized =>
            response'.results[1].user_id = None]_vars

\* a face exactly the configured tolerance away from its nearest entry was
\* recognized
C13_Witness ==
  /\ response.op = "recognize"
  /\ response.status = 200
  /\ response.total_faces = 1
  /\ tolerance = Tolerance
  /\ response.results[1].is_recognized
  /\ response.results[1].confidence = One - Tolerance


\* the entries of the index at the least distance from the probe
Nearest(probe) ==
  {i \in 1..Len(known_face_encodings) :
     Abs(known_face_encodings[i] - probe) = MinDistance(probe)}

\* C14: against a non-empty index the match selects an entry at the least
\* distance from the probe, and of several such entries the one that comes
\* first in the index
C14_FirstNearestSelected ==
  [][(MatchesFace /\ response'.status = 200) =>
       LET probe == response'.faces[1]
           result == response'.results[1]
           first == CHOOSE i \in Nearest(probe) : \A j \in Nearest(probe) : i <= j
       IN /\ result.confidence = One - MinDistance(probe)
          /\ result.is_recognized =>
               /\ result.user_id = known_face_ids[first]
               /\ result.name = known_face_names[first]]_vars

\* a face as far from one entry as from the other was given the identity of
\* the entry that a listing put first, against the order of the ids
C14_Witness ==
  /\ response.op = "recognize"
  /\ response.status = 200
  /\ response.total_faces = 1
  /\ Len(known_face_ids) = 2
  /\ known_face_ids[1] > known_face_ids[2]
  /\ Cardinality(Nearest(response.faces[1])) = 2
  /\ response.results[1].is_recognized
  /\ response.results[1].user_id = known_face_ids[1]

\* C15: the confidence of every result lies between 0 and 1 and is
\* max(0, 1 - best distance)
C15_ConfidenceClamped ==
  (response.op \in {"recognize", "recognize-upload"} /\ response.status = 200) =>
    \A i \in 1..Len(response.results) :
      /\ response.results[i].confidence >= 0
      /\ response.results[i].confidence <= One
      /\ known_face_encodings # <<>> =>
           response.results[i].confidence =
             (IF MinDistance(response.faces[i]) > One THEN 0
              ELSE One - MinDistance(response.faces[i]))


\* ------------------------------------------------------ frame processing
\* the step answers a request to POST /camera/recognize, well or with an error
AnswersRecognize == response'.op = "recognize" /\ response'.status \in {200, 500}

\* the results of the response that are not recognized
UnknownIn(resp) == {i \in 1..Len(resp.results) : ~resp.results[i].is_recognized}

\* C16: a reload over an empty folder returns with success and leaves the
\* three lists empty; against an empty index every face of a frame is
\* reported unknown, without user id, with confidence 0
C16_EmptyIndexIsValid ==
  [][/\ (ReloadReturns /\ \A u \in UserIds : files[u] = "absent") =>
          /\ response'.status \in {200, 201, 204}
          /\ CurrentIndex' = EmptyIndex
     /\ (AnswersRecognize /\ known_face_encodings = <<>>) =>
          /\ response'.status = 200
          /\ Len(response'.results) = Len(response'.faces)
          /\ response'.unknown = Len(response'.faces)
          /\ \A i \in 1..Len(response'.results) :
               response'.results[i] =
                 [user_id |-> None, name |-> "Unknown", confidence |-> 0,
                  is_recognized |-> FALSE]]_vars

\* every user was deleted, the folder is empty, and the two faces of a frame
\* were reported unknown
C16_Witness ==
  /\ \A u \in UserIds : files[u] = "absent"
  /\ known_face_encodings = <<>>
  /\ response.op = "recognize"
  /\ response.status = 200
  /\ response.total_faces = 2
  /\ response.unknown = 2

\* C17: a recognition stores one unknown-face row for each face it does not
\* recognize, and adds attendance rows only for identities it recognized
C17_UnknownNotDeduplicated ==
  [][RecognitionStep =>
       /\ unknown_faces' = unknown_faces + Cardinality(UnknownIn(response'))
       /\ response'.unknown = Cardinality(UnknownIn(response'))
       /\ \A u \in UserIds : AddedFor(u) # {} => SeenIn(response', u)
       /\ Cardinality(UnknownIn(response')) = Len(response'.results)
            => attendance_logs' = attendance_logs]_vars

\* a frame of two strangers left two unknown-face rows and no attendance row
C17_Witness ==
  /\ response.status = 200
  /\ response.faces = <<Stranger, Stranger>>
  /\ response.unknown = 2
  /\ unknown_faces = 2
  /\ attendance_logs = <<>>

\* C18: a recognition request that ends with an error adds no attendance
\* row and no unknown-face row
C18_AllOrNothing ==
  [][(response'.op \in {"recognize", "recognize-upload"} /\ response'.status \in {400, 500})
       => (attendance_logs' = attendance_logs /\ unknown_faces' = unknown_faces)]_vars

\* a frame failed on its second face, whose nearest entry has no user id in
\* the index, after a first face that would have been logged, and nothing
\* was stored
C18_Witness ==
  /\ response.op = "recognize"
  /\ response.status = 500
  /\ Len(response.faces) = 2
  /\ Malformed \notin Range(response.faces)
  /\ attendance_logs = <<>>
  /\ unknown_faces = 0
  /\ known_face_ids # <<>>
  /\ known_face_names # <<>>
  /\ known_face_encodings[1] = EncOf(known_face_ids[1])
  /\ response.faces[1] = known_face_encodings[1]
  /\ response.faces[2] # response.faces[1]

C20_AggregateConsistent ==
  [][RecognitionStep =>
       LET r == response'
           accepted == Len(attendance_logs') - Len(attendance_logs)
           matched == {i \in 1..Len(r.results) : r.results[i].is_recognized}
       IN /\ r.total_faces = Len(r.results)
          /\ r.total_faces = Len(r.faces)
          /\ r.unknown = Cardinality(UnknownIn(r))
          /\ r.recognized = accepted
          /\ Len(r.logged_users) = accepted
          /\ r.total_faces - r.recognized - r.unknown >= 0
          /\ r.total_faces - r.recognized - r.unknown = Cardinality(matched) - accepted]_vars

\* a frame showed the same identity twice: the first face was logged, the
\* second suppressed
C20_Witness ==
  /\ response.op \in {"recognize", "recognize-upload"}
  /\ response.status = 200
  /\ response.total_faces = 2
  /\ response.recognized = 1
  /\ response.unknown = 0
  /\ response.faces[1] = response.faces[2]
  /\ Len(attendance_logs) = 1


\* ---------------------------------------------------------- the live feed
\* the step is one of the worker thread inside generate_frames
FeedStep == feed' # feed /\ task' = task

\* C21: no step of the live feed, from the frame read to the last face
\* matched, adds an attendance row or an unknown-face row, or changes the
\* window rejections or the three index lists
C21_MatchingHasNoSideEffects ==
  [][FeedStep => UNCHANGED <<attendance_logs, unknown_faces, window_rejected,
                             known_face_encodings, known_face_ids,
                             known_face_names>>]_vars

\* the feed has matched a registered user who has no attendance row, while
\* another user has one
C21_Witness ==
  /\ feed.pc = "matched"
  /\ feed.result.is_recognized
  /\ RowsOf(attendance_logs, feed.result.user_id) = {}
  /\ attendance_logs # <<>>


\* ------------------------------------------------------ the cooldown state
\* the timestamp duplicate suppression compares for u: the latest of u's rows
LastAcceptedOr(rows, u, none) ==
  IF RowsOf(rows, u) = {} THEN none ELSE LastAccepted(rows, u)

\* C22: the latest timestamp among an identity's attendance rows never
\* decreases, whatever the step; a step that adds a row for the identity
\* leaves it at the current time
C22_LastAcceptedMonotone ==
  [][\A u \in UserIds :
       /\ LastAcceptedOr(attendance_logs', u, -1) >= LastAcceptedOr(attendance_logs, u, -1)
       /\ AddedFor(u) # {} => LastAcceptedOr(attendance_logs', u, -1) = now]_vars

\* an identity was accepted twice, minutes apart, with an unknown face and a
\* window rejection in the same run
C22_Witness ==
  /\ unknown_faces >= 1
  /\ window_rejected.user # None
  /\ \E u \in UserIds :
       /\ Cardinality(RowsOf(attendance_logs, u)) = 2
       /\ attendance_logs[1].timestamp < attendance_logs[2].timestamp


\* ------------------------------------------------------ errors and inputs
\* the files of the folder that raise inside load_known_faces
FailsToLoad(fs) == {u \in UserIds : fs[u] \in {"unreadable", "noUserId", "noName"}}

\* C23: a reload during which a stored file raised ends with an error
\* response, and so does a recognition during which the matcher raised
C23_ErrorsReported ==
  [][/\ (ReloadReturns /\ FailsToLoad(files) # {})
          => response'.status \notin {200, 201, 204}
     /\ (AnswersRecognize /\ ~Reloading
           /\ RaisedIn(recognize_faces([decodable |-> TRUE, faces |-> response'.faces])))
          => response'.status = 500]_vars


UndecodableStep ==
  /\ response'.op = "recognize-upload"
  /\ \E k \in 1..Len(uploads) :
       ~uploads[k].frame.decodable /\ uploads' = Without(uploads, k)

\* C25: an upload that cannot be decoded is answered 400 and adds no
\* attendance row and no unknown-face row
C25_UndecodableIs400 ==
  [][UndecodableStep =>
       /\ response'.status = 400
       /\ UNCHANGED <<attendance_logs, unknown_faces>>]_vars


\* C26: when a load returns, the three lists have the same length and
\* position i of each belongs to the same stored identity, also when a file
\* of the folder failed to load
C26_ListsAligned ==
  [][ReloadReturns =>
       /\ WellFormed(CurrentIndex')
       /\ \A i \in 1..Len(known_face_ids') :
            /\ known_face_encodings'[i] = EncOf(known_face_ids'[i])
            /\ known_face_names'[i] = NameOf(known_face_ids'[i])]_vars


\* ------------------------------------------------------------- the camera
\* C27: whenever is_running is True, camera is a capture that opened
C27_RunningImpliesOpened == is_running => camera = "opened"

\* the step is a generator's "self.camera.read()"
CameraRead(s) == streams[s] = "read" /\ streams'[s] # "read"

\* C28: no generator reads from a camera that is released or None
C28_NoReadAfterStop ==
  [][\A s \in 1..MaxStreams : CameraRead(s) => camera \notin {"released", "None"}]_vars

\* POST /camera/stop has answered
StopReturned == response.op = "stop_camera" /\ response.status = 200

\* C29: after stop_camera has returned, every generator ends, unless a
\* start_camera gives the service a capture again
C29_StreamsEndAfterStop ==
  \A s \in 1..MaxStreams :
    [](StopReturned => <>(streams[s] \in Ended \/ camera # "None"))

\* stop_camera returned while two feeds streamed: one found is_running False,
\* the other ended on the exception of its read
C29_Witness ==
  /\ StopReturned
  /\ ~is_running
  /\ streams[1] = "done"
  /\ streams[2] = "raised"

=============================================================================
